---- MODULE Spec2Model ----
(***************************************************************************)
(* Model of the backend registry (src/backend.py, class BackendManager)    *)
(* and of the shell that drives it (src/ui.py, class QTranspileApp).       *)
(*                                                                         *)
(* A Python dict is modelled as a record [map, keys]: the mapping and the  *)
(* insertion order of its keys.  An object is a record; two objects are    *)
(* the same object when their records are equal (remote backends carry     *)
(* the position they had in the provider's answer as their identity).      *)
(***************************************************************************)
EXTENDS Integers, Sequences, FiniteSets, TLC

\* ---------------------------------------------------------------- bounds
\* Longest answer of provider.backends() that is enumerated.
MaxProv == 2
\* Number of set_backend calls one thread makes.
MaxCalls == 2
\* Number of background analyses the shell starts.
MaxTasks == 2

\* ------------------------------------------------------------ dictionaries
EmptyMap == [k \in {} |-> k]

EmptyDict == [map |-> EmptyMap, keys |-> << >>]

\* d[k] = v : an existing key keeps its place, a new key goes last.
DictSet(d, k, v) ==
    [map  |-> (k :> v) @@ d.map,
     keys |-> IF k \in DOMAIN d.map THEN d.keys ELSE Append(d.keys, k)]

\* k in d
DictHas(d, k) == k \in DOMAIN d.map

\* d[k]
DictGet(d, k) == d.map[k]

\* ---------------------------------------------------------------- objects
StatevectorName == "Aer (statevector)"
QasmName == "Aer (qasm)"

\* AerSimulator(method=m)
AerSimulator(m) == [provider |-> "aer", name |-> m, simulator |-> TRUE, oid |-> 0]

\* The absence of a backend object (an attribute not yet set, no return value).
NoBackend == [provider |-> "none", name |-> "", simulator |-> FALSE, oid |-> 0]

\* What the remote provider can answer with: devices and a hosted simulator.
Devices ==
    { [name |-> "lima", simulator |-> FALSE],
      [name |-> "quito", simulator |-> FALSE],
      [name |-> "ibmq_qasm_simulator", simulator |-> TRUE] }

\* The i-th object of the provider's answer.
RemoteBackend(b, i) ==
    [provider |-> "ibm", name |-> b.name, simulator |-> b.simulator, oid |-> i]

\* f"IBM {b.name()}"
IBMName(n) == "IBM " \o n

\* NoiseModel objects.  kind "empty" is NoiseModel(); "device" is built from a
\* calibration snapshot; the two synthetic kinds carry their probability (in
\* hundredths) and the instructions the error is attached to.
NoiseModel == [kind |-> "empty", snap |-> 0, p |-> 0, gates |-> {}]

NoNoiseModel == [kind |-> "none", snap |-> 0, p |-> 0, gates |-> {}]

DeviceNoiseModel(s) == [kind |-> "device", snap |-> s, p |-> 0, gates |-> {}]

\* --------------------------------------------------------------- discovery
\* Where the remote discovery of __init__ raises, if anywhere.
SetupFailures == {"save_account", "load_account", "get_provider", "backends"}

ItemFailures == {"configuration", "name"}

NoFailure == [at |-> "none", idx |-> 0]

Failures(provs) ==
    {NoFailure}
    \cup {[at |-> a, idx |-> 0] : a \in SetupFailures}
    \cup {[at |-> a, idx |-> i] : a \in ItemFailures, i \in 1..Len(provs)}

BoundedSeq(S, n) == UNION {[1..m -> S] : m \in 0..n}

ProviderAnswers == BoundedSeq(Devices, MaxProv)

\* The for loop over provider.backends(): st = [dict, raised, found], where found
\* lists the names registered so far, in the order of their registration.
RECURSIVE RegisterRemote(_, _, _, _)
RegisterRemote(st, provs, i, fail) ==
    IF i > Len(provs) THEN st
    ELSE LET b == provs[i] IN
         IF fail.at = "configuration" /\ fail.idx = i
           THEN [st EXCEPT !.raised = TRUE]
         ELSE IF b.simulator
           THEN RegisterRemote(st, provs, i + 1, fail)
         ELSE IF fail.at = "name" /\ fail.idx = i
           THEN [st EXCEPT !.raised = TRUE]
         ELSE RegisterRemote(
                [dict   |-> DictSet(st.dict, IBMName(b.name), RemoteBackend(b, i)),
                 raised |-> FALSE,
                 found  |-> Append(st.found, IBMName(b.name))],
                provs, i + 1, fail)

\* The try block of __init__; an exception leaves what was registered before it.
DiscoverRemote(d, provs, fail) ==
    IF fail.at \in SetupFailures
      THEN [dict |-> d, raised |-> TRUE, found |-> << >>]
      ELSE RegisterRemote([dict |-> d, raised |-> FALSE, found |-> << >>],
                          provs, 1, fail)

\* A faulty loading of the simulators: both assignments use the same key.
LoadAerSimulators_SameKey ==
    DictSet(DictSet(EmptyDict, StatevectorName, AerSimulator("statevector")),
            StatevectorName, AerSimulator("qasm"))

\* The two assignments that load the Aer simulators.
LoadAerSimulators ==
    DictSet(DictSet(EmptyDict, StatevectorName, AerSimulator("statevector")),
            QasmName, AerSimulator("qasm"))

\* The calibration snapshots a device reports over time (its data is live).
Snapshots == {1, 2}

\* Calibration data as create_noise_model finds it.  fails names the call that
\* raises ("properties", "from_backend") or is "none"; snap is the snapshot read.
AllCalibrations ==
    {[fails |-> f, snap |-> 0] : f \in {"properties", "from_backend"}}
    \cup {[fails |-> "none", snap |-> s] : s \in Snapshots}

\* An AerSimulator built without a device has no properties: properties() gives
\* None, which NoiseModel.from_backend rejects.  A device reports live data.
Calibrations(backend) ==
    IF backend.provider = "ibm"
      THEN AllCalibrations
      ELSE {[fails |-> "from_backend", snap |-> 0]}

\* The try/except of create_noise_model.
FromBackend(cal) ==
    IF cal.fails # "none" THEN NoiseModel ELSE DeviceNoiseModel(cal.snap)

\* Probabilities handed to the synthetic constructors, in hundredths.
Probabilities == {-10, 0, 50, 100, 120, 150}

\* depolarizing_error(p, 1) accepts 0 <= p <= 4^n / (4^n - 1) with n = 1.
DepolarizingAccepts(p) == 0 <= p /\ 3 * p <= 400

\* pauli_error([('X', p), ('I', 1-p)]) accepts non-negative probabilities.
PauliAccepts(p) == 0 <= p /\ 0 <= 100 - p

\* Names a caller may pass.
NameArgs ==
    {StatevectorName, QasmName, "nonexistent"}
    \cup {IBMName(d.name) : d \in Devices}

\* Threads that call the registry at the same time.
Threads == {"t1", "t2"}

\* ------------------------------------------------------------------ state
VARIABLES
    phase,           \* "new" before __init__ has run, "ready" after
    backends,        \* self.backends (dict name -> backend)
    noise_models,    \* self.noise_models (name -> NoiseModel; its order is never read)
    active_backend,  \* self.active_backend
    ret,             \* outcome of the last call on the registry
    disc,            \* what the remote discovery of __init__ did
    selected,        \* backend returned by the last successful set_backend
    calls,           \* per thread: the registry call it is executing
    last_write,      \* name whose backend was last stored by a thread ("" if none)
    app,             \* TRUE once QTranspileApp.__init__ has run
    has_circuit,     \* self.builder._qc is there (truthy)
    tree,            \* rows of self.tree, top to bottom
    analysis_data,   \* self.analysis_data
    tasks,           \* the background threads started by _start_analysis
    ui_out,          \* the last dialog shown or report produced
    request          \* levels and backend name read by the last accepted Run Analysis

registryVars == <<phase, backends, noise_models, active_backend, ret, disc, selected>>

threadVars == <<calls, last_write>>

uiVars == <<app, has_circuit, tree, analysis_data, tasks, ui_out, request>>

clientVars == <<threadVars, uiVars>>

vars == <<registryVars, clientVars>>

NoCalibration == [fails |-> "unread", snap |-> 0]

\* Outcome records: exc is "none" or the exception raised.
Returned(op, arg) ==
    [op |-> op, arg |-> arg, exc |-> "none", backend |-> NoBackend,
     names |-> << >>, shared |-> FALSE, nm |-> NoNoiseModel,
     cal |-> NoCalibration, p |-> 0]

Raised(op, arg, exc) == [Returned(op, arg) EXCEPT !.exc = exc]

\* self.analysis_data: None (set = FALSE) or a list of result records.
NoData == [set |-> FALSE, rows |-> << >>]

\* What the last accepted Run Analysis read from the levels entry and the
\* backend combobox; nothing before the first.
NoRequest == [backend |-> "", levels |-> << >>]

\* A thread's call: n counts the calls it has made.
IdleCall == [pc |-> "idle", name |-> "", exc |-> "none", backend |-> NoBackend,
             n |-> 0, op |-> "none", nm |-> NoNoiseModel]

Init ==
    /\ phase = "new"
    /\ backends = EmptyDict
    /\ noise_models = EmptyMap
    /\ active_backend = NoBackend
    /\ ret = Returned("none", "")
    /\ disc = [attempted |-> FALSE, raised |-> FALSE, found |-> << >>]
    /\ selected = NoBackend
    /\ calls = [t \in Threads |-> IdleCall]
    /\ last_write = ""
    /\ app = FALSE
    /\ has_circuit = FALSE
    /\ tree = << >>
    /\ analysis_data = NoData
    /\ tasks = << >>
    /\ ui_out = [kind |-> "none", data |-> << >>]
    /\ request = NoRequest

\* A faulty __init__: the default active backend is a new simulator object
\* instead of the registered one.
Construct_FreshDefault(ibmq, token, provs, fail) ==
    /\ phase = "new"
    /\ LET attempt == ibmq /\ token # ""
           res == IF attempt
                    THEN DiscoverRemote(LoadAerSimulators, provs, fail)
                    ELSE [dict |-> LoadAerSimulators, raised |-> FALSE,
                          found |-> << >>]
       IN /\ backends' = res.dict
          /\ disc' = [attempted |-> attempt, raised |-> res.raised,
                      found |-> res.found]
    /\ active_backend' = AerSimulator("automatic")
    /\ noise_models' = EmptyMap
    /\ phase' = "ready"
    /\ ret' = Returned("__init__", "")
    /\ UNCHANGED selected

\* ------------------------------------------------------- BackendManager
\* __init__(ibm_api_token, ...): ibmq says whether the IBMQ import succeeded,
\* token is the api token ("" stands for None), provs and fail are what the
\* remote provider answers and where it raises.
Construct(ibmq, token, provs, fail) ==
    /\ phase = "new"
    /\ LET attempt == ibmq /\ token # ""
           res == IF attempt
                    THEN DiscoverRemote(LoadAerSimulators, provs, fail)
                    ELSE [dict |-> LoadAerSimulators, raised |-> FALSE,
                          found |-> << >>]
       IN /\ backends' = res.dict
          /\ disc' = [attempted |-> attempt, raised |-> res.raised,
                      found |-> res.found]
          /\ active_backend' = DictGet(res.dict, StatevectorName)
    /\ noise_models' = EmptyMap
    /\ phase' = "ready"
    /\ ret' = Returned("__init__", "")
    /\ UNCHANGED selected

\* A faulty list_backends: the names in reverse order.
list_backends_Reversed ==
    /\ phase = "ready"
    /\ ret' = [Returned("list_backends", "") EXCEPT
                  !.names = [i \in 1..Len(backends.keys) |->
                                backends.keys[Len(backends.keys) + 1 - i]]]
    /\ UNCHANGED <<phase, backends, noise_models, active_backend, disc, selected>>

list_backends ==
    /\ phase = "ready"
    /\ ret' = [Returned("list_backends", "") EXCEPT !.names = backends.keys]
    /\ UNCHANGED <<phase, backends, noise_models, active_backend, disc, selected>>

\* The caller changes the list it was given (appends a name or drops the first
\* one); the registry is reached only if the list is the registry's own.
CallerEditsList ==
    /\ phase = "ready"
    /\ ret.op = "list_backends"
    /\ \E edited \in {Append(ret.names, "mine"), Tail(ret.names)} :
          /\ ret' = [ret EXCEPT !.op = "edited_list", !.names = edited]
          /\ backends' = IF ret.shared THEN [backends EXCEPT !.keys = edited]
                                       ELSE backends
    /\ UNCHANGED <<phase, noise_models, active_backend, disc, selected>>

\* A faulty set_backend: it stores self.backends.get(name) before the check.
set_backend_StoreBeforeCheck(name) ==
    /\ phase = "ready"
    /\ IF ~DictHas(backends, name)
         THEN /\ active_backend' = NoBackend
              /\ ret' = Raised("set_backend", name, "ValueError")
              /\ UNCHANGED selected
         ELSE /\ active_backend' = DictGet(backends, name)
              /\ ret' = [Returned("set_backend", name)
                            EXCEPT !.backend = active_backend']
              /\ selected' = ret'.backend
    /\ UNCHANGED <<phase, backends, noise_models, disc>>

\* A faulty set_backend: it returns the backend without storing it.
set_backend_NoStore(name) ==
    /\ phase = "ready"
    /\ IF ~DictHas(backends, name)
         THEN /\ ret' = Raised("set_backend", name, "ValueError")
              /\ UNCHANGED selected
         ELSE /\ ret' = [Returned("set_backend", name)
                            EXCEPT !.backend = DictGet(backends, name)]
              /\ selected' = ret'.backend
    /\ UNCHANGED <<phase, backends, noise_models, active_backend, disc>>

set_backend(name) ==
    /\ phase = "ready"
    /\ IF ~DictHas(backends, name)
         THEN /\ ret' = Raised("set_backend", name, "ValueError")
              /\ UNCHANGED <<active_backend, selected>>
         ELSE /\ active_backend' = DictGet(backends, name)
              /\ ret' = [Returned("set_backend", name)
                            EXCEPT !.backend = active_backend']
              /\ selected' = ret'.backend
    /\ UNCHANGED <<phase, backends, noise_models, disc>>

get_backend ==
    /\ phase = "ready"
    /\ ret' = [Returned("get_backend", "") EXCEPT !.backend = active_backend]
    /\ UNCHANGED <<phase, backends, noise_models, active_backend, disc, selected>>

\* A faulty create_noise_model: the model is stored in self.backends.
create_noise_model_StoresInBackends(backend_name, cal) ==
    /\ phase = "ready"
    /\ IF ~DictHas(backends, backend_name)
         THEN /\ cal = NoCalibration
              /\ ret' = Raised("create_noise_model", backend_name, "ValueError")
              /\ UNCHANGED backends
         ELSE /\ cal \in Calibrations(DictGet(backends, backend_name))
              /\ LET nm == FromBackend(cal) IN
                   /\ backends' = DictSet(backends, backend_name, nm)
                   /\ ret' = [Returned("create_noise_model", backend_name)
                                 EXCEPT !.nm = nm, !.cal = cal]
    /\ UNCHANGED <<phase, noise_models, active_backend, disc, selected>>

\* A faulty create_noise_model: a model already cached is kept (setdefault).
create_noise_model_KeepsFirst(backend_name, cal) ==
    /\ phase = "ready"
    /\ IF ~DictHas(backends, backend_name)
         THEN /\ cal = NoCalibration
              /\ ret' = Raised("create_noise_model", backend_name, "ValueError")
              /\ UNCHANGED noise_models
         ELSE /\ cal \in Calibrations(DictGet(backends, backend_name))
              /\ LET nm == FromBackend(cal) IN
                   /\ noise_models' = noise_models @@ (backend_name :> nm)
                   /\ ret' = [Returned("create_noise_model", backend_name)
                                 EXCEPT !.nm = nm, !.cal = cal]
    /\ UNCHANGED <<phase, backends, active_backend, disc, selected>>

\* A faulty create_noise_model: no try/except around the derivation.
create_noise_model_NoExcept(backend_name, cal) ==
    /\ phase = "ready"
    /\ IF ~DictHas(backends, backend_name)
         THEN /\ cal = NoCalibration
              /\ ret' = Raised("create_noise_model", backend_name, "ValueError")
              /\ UNCHANGED noise_models
         ELSE /\ cal \in Calibrations(DictGet(backends, backend_name))
              /\ IF cal.fails # "none"
                   THEN /\ ret' = [Raised("create_noise_model", backend_name,
                                          "Exception") EXCEPT !.cal = cal]
                        /\ UNCHANGED noise_models
                   ELSE /\ noise_models' =
                              (backend_name :> DeviceNoiseModel(cal.snap)) @@ noise_models
                        /\ ret' = [Returned("create_noise_model", backend_name)
                                      EXCEPT !.nm = DeviceNoiseModel(cal.snap),
                                             !.cal = cal]
    /\ UNCHANGED <<phase, backends, active_backend, disc, selected>>

\* cal is the calibration data the call finds (read only for a known name).
create_noise_model(backend_name, cal) ==
    /\ phase = "ready"
    /\ IF ~DictHas(backends, backend_name)
         THEN /\ cal = NoCalibration
              /\ ret' = Raised("create_noise_model", backend_name, "ValueError")
              /\ UNCHANGED noise_models
         ELSE /\ cal \in Calibrations(DictGet(backends, backend_name))
              /\ LET nm == FromBackend(cal) IN
                   /\ noise_models' = (backend_name :> nm) @@ noise_models
                   /\ ret' = [Returned("create_noise_model", backend_name)
                                 EXCEPT !.nm = nm, !.cal = cal]
    /\ UNCHANGED <<phase, backends, active_backend, disc, selected>>

\* A faulty get_noise_model: the default is stored (setdefault).
get_noise_model_SetDefault(backend_name) ==
    /\ phase = "ready"
    /\ noise_models' = noise_models @@ (backend_name :> NoiseModel)
    /\ ret' = [Returned("get_noise_model", backend_name)
                  EXCEPT !.nm = noise_models'[backend_name]]
    /\ UNCHANGED <<phase, backends, active_backend, disc, selected>>

get_noise_model(backend_name) ==
    /\ phase = "ready"
    /\ ret' = [Returned("get_noise_model", backend_name)
                  EXCEPT !.nm = IF backend_name \in DOMAIN noise_models
                                  THEN noise_models[backend_name]
                                  ELSE NoiseModel]
    /\ UNCHANGED <<phase, backends, noise_models, active_backend, disc, selected>>

sample_depolarizing(p) ==
    /\ phase = "ready"
    /\ ret' = IF DepolarizingAccepts(p)
                THEN [Returned("sample_depolarizing", "")
                         EXCEPT !.nm = [kind |-> "depolarizing", snap |-> 0,
                                        p |-> p, gates |-> {"u1", "u2", "u3"}],
                                !.p = p]
                ELSE [Raised("sample_depolarizing", "", "NoiseError")
                         EXCEPT !.p = p]
    /\ UNCHANGED <<phase, backends, noise_models, active_backend, disc, selected>>

sample_pauli(p) ==
    /\ phase = "ready"
    /\ ret' = IF PauliAccepts(p)
                THEN [Returned("sample_pauli", "")
                         EXCEPT !.nm = [kind |-> "pauli", snap |-> 0,
                                        p |-> p, gates |-> {"cx"}],
                                !.p = p]
                ELSE [Raised("sample_pauli", "", "NoiseError") EXCEPT !.p = p]
    /\ UNCHANGED <<phase, backends, noise_models, active_backend, disc, selected>>

\* A caller that builds a registry with any credentials and any provider answer.
NewRegistry ==
    /\ phase = "new"
    /\ \E ibmq \in BOOLEAN, token \in {"", "token"}, provs \in ProviderAnswers :
          \E fail \in Failures(provs) : Construct(ibmq, token, provs, fail)

\* The registry used by one caller at a time: every method runs to its end.
Next ==
    \/ NewRegistry /\ UNCHANGED clientVars
    \/ list_backends /\ UNCHANGED clientVars
    \/ CallerEditsList /\ UNCHANGED clientVars
    \/ \E name \in NameArgs : set_backend(name) /\ UNCHANGED clientVars
    \/ get_backend /\ UNCHANGED clientVars
    \/ \E name \in NameArgs, cal \in AllCalibrations \cup {NoCalibration} :
          create_noise_model(name, cal) /\ UNCHANGED clientVars
    \/ \E name \in NameArgs : get_noise_model(name) /\ UNCHANGED clientVars
    \/ \E p \in Probabilities : sample_depolarizing(p) /\ UNCHANGED clientVars
    \/ \E p \in Probabilities : sample_pauli(p) /\ UNCHANGED clientVars

Spec == Init /\ [][Next]_vars

\* ------------------------------------------- set_backend, step by step
\* Thread t enters set_backend(name).
SetBackendCall(t, name) ==
    /\ phase = "ready"
    /\ calls[t].pc \in {"idle", "done"}
    /\ calls[t].n < MaxCalls
    /\ calls' = [calls EXCEPT ![t] = [IdleCall EXCEPT !.pc = "check", !.name = name,
                                                      !.n = calls[t].n + 1]]
    /\ UNCHANGED <<registryVars, last_write, uiVars>>

\* if name not in self.backends: raise ValueError
SetBackendCheck(t) ==
    /\ calls[t].pc = "check"
    /\ calls' = [calls EXCEPT ![t] =
                    IF DictHas(backends, calls[t].name)
                      THEN [@ EXCEPT !.pc = "store"]
                      ELSE [@ EXCEPT !.pc = "done", !.exc = "ValueError"]]
    /\ UNCHANGED <<registryVars, last_write, uiVars>>

\* self.active_backend = self.backends[name]
SetBackendStore(t) ==
    /\ calls[t].pc = "store"
    /\ active_backend' = DictGet(backends, calls[t].name)
    /\ last_write' = calls[t].name
    /\ calls' = [calls EXCEPT ![t].pc = "return"]
    /\ UNCHANGED <<phase, backends, noise_models, ret, disc, selected, uiVars>>

\* return self.active_backend
SetBackendReturn(t) ==
    /\ calls[t].pc = "return"
    /\ calls' = [calls EXCEPT ![t].pc = "done", ![t].backend = active_backend]
    /\ UNCHANGED <<registryVars, last_write, uiVars>>

NextConc ==
    \/ NewRegistry /\ UNCHANGED clientVars
    \/ \E t \in Threads, name \in NameArgs : SetBackendCall(t, name)
    \/ \E t \in Threads : SetBackendCheck(t)
    \/ \E t \in Threads : SetBackendStore(t)
    \/ \E t \in Threads : SetBackendReturn(t)

SpecConc == Init /\ [][NextConc]_vars

\* --------------- create_noise_model and get_noise_model, step by step
\* Names the threads derive and look up noise models for.
NoiseArgs == {QasmName, IBMName("lima"), "nonexistent"}

\* Thread t enters create_noise_model(name).
CreateNoiseModelCall(t, name) ==
    /\ phase = "ready"
    /\ calls[t].pc \in {"idle", "done"}
    /\ calls[t].n < MaxCalls
    /\ calls' = [calls EXCEPT ![t] = [IdleCall EXCEPT !.pc = "nm_check",
                                                      !.op = "create_noise_model",
                                                      !.name = name,
                                                      !.n = calls[t].n + 1]]
    /\ UNCHANGED <<registryVars, last_write, uiVars>>

\* if backend_name not in self.backends: raise ValueError
CreateNoiseModelCheck(t) ==
    /\ calls[t].pc = "nm_check"
    /\ calls' = [calls EXCEPT ![t] =
                    IF DictHas(backends, calls[t].name)
                      THEN [@ EXCEPT !.pc = "nm_derive"]
                      ELSE [@ EXCEPT !.pc = "done", !.exc = "ValueError"]]
    /\ UNCHANGED <<registryVars, last_write, uiVars>>

\* A faulty derivation: an unfinished model is put into the cache first and
\* completed afterwards.
CreateNoiseModelDerive_PublishesFirst(t, cal) ==
    /\ calls[t].pc = "nm_derive"
    /\ cal \in Calibrations(DictGet(backends, calls[t].name))
    /\ calls' = [calls EXCEPT ![t].pc = "nm_store", ![t].nm = FromBackend(cal)]
    /\ noise_models' = (calls[t].name :> [FromBackend(cal) EXCEPT !.kind = "partial"])
                           @@ noise_models
    /\ UNCHANGED <<phase, backends, active_backend, ret, disc, selected, last_write,
                   uiVars>>

\* The try block: nm is built, complete, in a local of the thread.
CreateNoiseModelDerive(t, cal) ==
    /\ calls[t].pc = "nm_derive"
    /\ cal \in Calibrations(DictGet(backends, calls[t].name))
    /\ calls' = [calls EXCEPT ![t].pc = "nm_store", ![t].nm = FromBackend(cal)]
    /\ UNCHANGED <<registryVars, last_write, uiVars>>

\* self.noise_models[backend_name] = nm; return nm.  The dict store puts one
\* reference to the finished object into the dict.
CreateNoiseModelStore(t) ==
    /\ calls[t].pc = "nm_store"
    /\ noise_models' = (calls[t].name :> calls[t].nm) @@ noise_models
    /\ calls' = [calls EXCEPT ![t].pc = "done"]
    /\ UNCHANGED <<phase, backends, active_backend, ret, disc, selected, last_write,
                   uiVars>>

\* Thread t enters get_noise_model(name).
GetNoiseModelCall(t, name) ==
    /\ phase = "ready"
    /\ calls[t].pc \in {"idle", "done"}
    /\ calls[t].n < MaxCalls
    /\ calls' = [calls EXCEPT ![t] = [IdleCall EXCEPT !.pc = "nm_get",
                                                      !.op = "get_noise_model",
                                                      !.name = name,
                                                      !.n = calls[t].n + 1]]
    /\ UNCHANGED <<registryVars, last_write, uiVars>>

\* return self.noise_models.get(backend_name, NoiseModel())
GetNoiseModelRead(t) ==
    /\ calls[t].pc = "nm_get"
    /\ calls' = [calls EXCEPT ![t].pc = "done",
                              ![t].nm = IF calls[t].name \in DOMAIN noise_models
                                          THEN noise_models[calls[t].name]
                                          ELSE NoiseModel]
    /\ UNCHANGED <<registryVars, last_write, uiVars>>

NextNoise ==
    \/ NewRegistry /\ UNCHANGED clientVars
    \/ \E t \in Threads, name \in NoiseArgs : CreateNoiseModelCall(t, name)
    \/ \E t \in Threads : CreateNoiseModelCheck(t)
    \/ \E t \in Threads, cal \in AllCalibrations : CreateNoiseModelDerive(t, cal)
    \/ \E t \in Threads : CreateNoiseModelStore(t)
    \/ \E t \in Threads, name \in NoiseArgs : GetNoiseModelCall(t, name)
    \/ \E t \in Threads : GetNoiseModelRead(t)

SpecNoise == Init /\ [][NextNoise]_vars

SeqRange(q) == {q[i] : i \in 1..Len(q)}

\* ------------------------------------------------------- QTranspileApp
\* What the user may have typed in the "Optimize Levels" entry.
LevelTexts == {"1,0,1", "2", "-1", "0,x", ""}

\* text.split(',')
Split(text) ==
    CASE text = "1,0,1" -> <<"1", "0", "1">>
      [] text = "2"     -> <<"2">>
      [] text = "-1"      -> <<"-1">>
      [] text = "0,x"     -> <<"0", "x">>
      [] text = ""        -> <<"">>

\* int(token): the tokens it accepts and their values.
IntValue == ("0" :> 0) @@ ("1" :> 1) @@ ("2" :> 2) @@ ("3" :> 3) @@ ("-1" :> -1)

\* list(map(int, tokens)) raises ValueError on the first token int() rejects.
ParsesAsInts(tokens) == \A i \in 1..Len(tokens) : tokens[i] \in DOMAIN IntValue

MapInt(tokens) == [i \in 1..Len(tokens) |-> IntValue[tokens[i]]]

\* Optimization levels the transpiler supports.
SupportedLevels == 0..3

\* The ascending sequence of the elements of a finite set of integers.
RECURSIVE Ascending(_)
Ascending(S) ==
    IF S = {} THEN << >>
    ELSE LET m == CHOOSE x \in S : \A y \in S : x <= y
         IN <<m>> \o Ascending(S \ {m})

\* fails_at when no level fails.
NoLevel == -2

\* analyze_transpile(qc, backend, levels, pass_manager), as section 4.2 of the
\* specification describes it: the levels are deduplicated and sorted, an empty
\* or unsupported level set is rejected, each level gives one record, and a
\* failure at a level (fails_at) aborts the whole call.
analyze_transpile(backend, levels, fails_at) ==
    LET wanted == {levels[i] : i \in 1..Len(levels)}
        order  == Ascending(wanted)
    IN IF wanted = {} \/ ~(wanted \subseteq SupportedLevels)
         THEN [exc |-> "InvalidParameter", results |-> << >>]
       ELSE IF fails_at \in wanted
         THEN [exc |-> "AnalysisFailed", results |-> << >>]
       ELSE [exc |-> "none",
             results |-> [i \in 1..Len(order) |->
                            [level |-> order[i], backend |-> backend.name]]]

\* QTranspileApp.__init__: the registry is built without credentials.
AppInit(ibmq) ==
    /\ ~app
    /\ Construct(ibmq, "", << >>, NoFailure)
    /\ app' = TRUE
    /\ has_circuit' = FALSE
    /\ analysis_data' = NoData
    /\ tree' = << >>
    /\ UNCHANGED <<tasks, ui_out, request, threadVars>>

\* _load_qasm: a file is chosen (or the dialog is cancelled) and the builder
\* then holds the circuit read from it.
LoadQasm(chosen) ==
    /\ app
    /\ has_circuit' = (has_circuit \/ chosen)
    /\ UNCHANGED <<registryVars, threadVars, app, tree, analysis_data, tasks, ui_out,
                   request>>

\* _start_analysis with the entry holding text and the combobox holding name.
StartAnalysis(text, name) ==
    /\ app
    /\ IF ~has_circuit
         THEN /\ ui_out' = [kind |-> "showwarning:No circuit", data |-> << >>]
              /\ UNCHANGED <<registryVars, tree, tasks, request>>
       ELSE IF ~ParsesAsInts(Split(text))
         THEN /\ ui_out' = [kind |-> "showerror:Invalid input", data |-> << >>]
              /\ UNCHANGED <<registryVars, tree, tasks, request>>
       ELSE /\ Len(tasks) < MaxTasks
            /\ set_backend(name)
            /\ IF ret'.exc # "none"
                 THEN UNCHANGED <<tree, tasks, ui_out, request>>
                 ELSE /\ tree' = << >>
                      /\ tasks' = Append(tasks,
                                     [pc |-> "analyze", backend |-> ret'.backend,
                                      levels |-> MapInt(Split(text)),
                                      results |-> << >>, i |-> 0,
                                      cancel |-> FALSE])
                      /\ request' = [backend |-> name,
                                      levels |-> MapInt(Split(text))]
                      /\ UNCHANGED ui_out
    /\ UNCHANGED <<threadVars, app, has_circuit, analysis_data>>

\* A thread that has ended ("done", or "failed" by an exception): its locals
\* are gone.
Ended(how) ==
    [pc |-> how, backend |-> NoBackend, levels |-> << >>, results |-> << >>,
     i |-> 0, cancel |-> FALSE]

\* A faulty task(): a failure at a level is swallowed and the records of the
\* levels before it are kept.
TaskAnalyze_KeepsPartial(k, fails_at) ==
    /\ k \in 1..Len(tasks)
    /\ tasks[k].pc = "analyze"
    /\ LET out == analyze_transpile(tasks[k].backend, tasks[k].levels, fails_at)
           all == analyze_transpile(tasks[k].backend, tasks[k].levels, NoLevel)
           part == SelectSeq(all.results, LAMBDA r : r.level < fails_at)
       IN tasks' = [tasks EXCEPT ![k] =
                       IF out.exc = "InvalidParameter"
                         THEN Ended("failed")
                         ELSE [@ EXCEPT !.pc = "store",
                                        !.results = IF out.exc = "none"
                                                      THEN out.results ELSE part,
                                        !.cancel = FALSE]]
    /\ UNCHANGED <<registryVars, threadVars, app, has_circuit, tree, analysis_data,
                   ui_out, request>>

\* task(), first statement: results = analyze_transpile(...); an exception ends
\* the thread.
TaskAnalyze(k, fails_at) ==
    /\ k \in 1..Len(tasks)
    /\ tasks[k].pc = "analyze"
    /\ LET out == analyze_transpile(tasks[k].backend, tasks[k].levels, fails_at)
       IN tasks' = [tasks EXCEPT ![k] =
                       IF out.exc # "none"
                         THEN Ended("failed")
                         ELSE [@ EXCEPT !.pc = "store", !.results = out.results,
                                        !.cancel = FALSE]]
    /\ UNCHANGED <<registryVars, threadVars, app, has_circuit, tree, analysis_data,
                   ui_out, request>>

\* task(): self.analysis_data = results
TaskStore(k) ==
    /\ k \in 1..Len(tasks)
    /\ tasks[k].pc = "store"
    /\ analysis_data' = [set |-> TRUE, rows |-> tasks[k].results]
    /\ tasks' = [tasks EXCEPT ![k].pc = "insert", ![k].i = 1]
    /\ UNCHANGED <<registryVars, threadVars, app, has_circuit, tree, ui_out, request>>

\* task(): one turn of the loop over results (self.tree.insert), or its end,
\* where the thread's locals go away.
TaskInsert(k) ==
    /\ k \in 1..Len(tasks)
    /\ tasks[k].pc = "insert"
    /\ IF tasks[k].i > Len(tasks[k].results)
         THEN /\ tasks' = [tasks EXCEPT ![k] = Ended("done")]
              /\ UNCHANGED tree
         ELSE /\ tree' = Append(tree, tasks[k].results[tasks[k].i])
              /\ tasks' = [tasks EXCEPT ![k].i = @ + 1]
    /\ UNCHANGED <<registryVars, threadVars, app, has_circuit, analysis_data, ui_out,
                   request>>

\* _save_csv, _save_json, _plot_metrics, _plot_ops: kind names the report; the
\* two file reports are written only if a path was chosen.  What is recorded
\* is the data the ReportGenerator is built from, not the method then called.
FileReports == {"to_csv", "to_json"}

Reports == FileReports \cup {"plot_metric", "plot_ops_breakdown"}

Report(kind, chosen) ==
    /\ app
    /\ IF ~analysis_data.set \/ analysis_data.rows = << >>
         THEN ui_out' = [kind |-> "showwarning:No data", data |-> << >>]
       ELSE IF kind \in FileReports /\ ~chosen
         THEN UNCHANGED ui_out
       ELSE ui_out' = [kind |-> "ReportGenerator", data |-> analysis_data.rows]
    /\ UNCHANGED <<registryVars, threadVars, app, has_circuit, tree, analysis_data,
                   tasks, request>>

NextUI ==
    \/ \E ibmq \in BOOLEAN : AppInit(ibmq)
    \/ \E chosen \in BOOLEAN : LoadQasm(chosen)
    \/ \E text \in LevelTexts, name \in SeqRange(backends.keys) :
          StartAnalysis(text, name)
    \/ \E k \in 1..Len(tasks) :
          \E fails_at \in {NoLevel} \cup SeqRange(tasks[k].levels) :
             TaskAnalyze(k, fails_at)
    \/ \E k \in 1..Len(tasks) : TaskStore(k)
    \/ \E k \in 1..Len(tasks) : TaskInsert(k)
    \/ \E kind \in Reports :
          \E chosen \in (IF kind \in FileReports THEN BOOLEAN ELSE {TRUE}) :
             Report(kind, chosen)

SpecUI == Init /\ [][NextUI]_vars

\* The registry in either use: called directly (any credentials), or owned by
\* the shell.
NextAll ==
    \/ ~app /\ Next
    \/ NextUI

SpecAll == Init /\ [][NextAll]_vars

\* The user asks for the analysis of thread k to be cancelled while it has
\* not returned from analyze_transpile.  No handler, flag or token of the
\* program takes the request: nothing the program reads changes.
RequestCancel(k) ==
    /\ k \in 1..Len(tasks)
    /\ tasks[k].pc = "analyze"
    /\ ~tasks[k].cancel
    /\ tasks' = [tasks EXCEPT ![k].cancel = TRUE]
    /\ UNCHANGED <<registryVars, threadVars, app, has_circuit, tree, analysis_data,
                   ui_out, request>>

NextCancel ==
    \/ NextUI
    \/ \E k \in 1..Len(tasks) : RequestCancel(k)

SpecCancel == Init /\ [][NextCancel]_vars

\* ================================================================ claims
Registered == DOMAIN backends.map

BuiltIns == <<StatevectorName, QasmName>>

\* q without the repetitions of an element after its first occurrence.
RECURSIVE FirstOccurrences(_)
FirstOccurrences(q) ==
    IF q = << >> THEN << >>
    ELSE LET front == FirstOccurrences(SubSeq(q, 1, Len(q) - 1))
             last  == q[Len(q)]
         IN IF last \in SeqRange(front) THEN front ELSE Append(front, last)

\* C1: a set_backend call with a name that is not registered raises the
\* unknown-backend error (ValueError) and leaves the active backend, the
\* registered backends and the noise-model cache as they were.
C1_UnknownSelectChangesNothing ==
    [][(ret'.op = "set_backend" /\ ret'.arg \notin Registered)
         => /\ ret'.exc = "ValueError"
            /\ active_backend' = active_backend
            /\ backends' = backends
            /\ noise_models' = noise_models]_vars

\* C1 witness: a failed select after other calls moved the active backend to a
\* remote device and filled the cache.
C1_Witness ==
    /\ ret.op = "set_backend" /\ ret.exc = "ValueError"
    /\ active_backend.provider = "ibm"
    /\ noise_models # EmptyMap

\* C2: set_backend with a registered name succeeds, makes the backend registered
\* under that name the active one and returns it; get_backend returns the
\* backend of the last successful set_backend, whatever was called in between.
C2_SelectThenGet ==
    /\ (ret.op = "set_backend" /\ ret.arg \in Registered)
          => /\ ret.exc = "none"
             /\ ret.backend = DictGet(backends, ret.arg)
             /\ active_backend = ret.backend
    /\ (ret.op = "get_backend" /\ selected # NoBackend)
          => ret.backend = selected

\* C2 witness: get_backend returns the remote device selected earlier, after a
\* noise model was cached in between.
C2_Witness ==
    /\ ret.op = "get_backend"
    /\ selected.provider = "ibm"
    /\ ret.backend = selected
    /\ noise_models # EmptyMap

\* C5 (as stated): when the remote discovery raised, the registry holds the two
\* local simulators and nothing else.
C5_FailedDiscoveryRegistersNothing ==
    (phase = "ready" /\ disc.raised) => backends.keys = BuiltIns

\* C6: after construction the registry always holds the statevector and the
\* qasm simulator, these are its only Aer simulators, and a registry built
\* without a discovery attempt holds nothing else.
C6_TwoBuiltInSimulators ==
    phase = "ready" =>
       /\ {StatevectorName, QasmName} \subseteq Registered
       /\ DictGet(backends, StatevectorName) = AerSimulator("statevector")
       /\ DictGet(backends, QasmName) = AerSimulator("qasm")
       /\ {n \in Registered : DictGet(backends, n).provider = "aer"}
             = {StatevectorName, QasmName}
       /\ ~disc.attempted => Registered = {StatevectorName, QasmName}

\* C6 witness: the built-ins beside two remote devices, after a call.
C6_Witness ==
    /\ phase = "ready"
    /\ Cardinality(Registered) = 4
    /\ ret.op = "create_noise_model"

\* C7: list_backends returns every registered name once, the two built-ins
\* first, then the remote devices in the order of their discovery; editing the
\* returned list leaves the registry's own order as it was.
C7_ListOrder ==
    LET expected == BuiltIns \o FirstOccurrences(disc.found) IN
    /\ ret.op = "list_backends"
          => /\ ret.names = expected
             /\ SeqRange(ret.names) = Registered
             /\ Len(ret.names) = Cardinality(Registered)
    /\ ret.op = "edited_list"
          => /\ backends.keys = expected
             /\ ret.names # backends.keys

\* C7 witness: the caller edited a list of four names.
C7_Witness ==
    /\ ret.op = "edited_list"
    /\ Len(backends.keys) = 4

\* C7 second case, reached as well: a device enumerated twice is listed once.
C7_WitnessRepeated ==
    /\ ret.op = "list_backends"
    /\ Len(disc.found) > Len(ret.names) - 2

\* C9 (as stated): a lookup for a registered name that has a cached model
\* returns that model and leaves the cache as it is; with none cached, the
\* model it returns is derived and is the cached one afterwards.
C9_LookupPrefersCache ==
    [][(/\ ret'.op \in {"create_noise_model", "get_noise_model"}
        /\ ret'.arg \in Registered)
         => IF ret'.arg \in DOMAIN noise_models
              THEN /\ ret'.nm = noise_models[ret'.arg]
                   /\ noise_models' = noise_models
              ELSE /\ ret'.arg \in DOMAIN noise_models'
                   /\ noise_models'[ret'.arg] = ret'.nm]_vars

\* C10: create_noise_model for a registered backend whose calibration data
\* cannot be read or used does not raise, returns the empty noise model and
\* caches it under the name.
C10_BadCalibrationGivesEmptyModel ==
    (/\ ret.op = "create_noise_model"
     /\ ret.arg \in Registered
     /\ ret.cal.fails \in {"properties", "from_backend"})
       => /\ ret.exc = "none"
          /\ ret.nm = NoiseModel
          /\ ret.arg \in DOMAIN noise_models
          /\ noise_models[ret.arg] = NoiseModel

\* C10 witness: the model of a remote device is requested when properties()
\* raises.
C10_Witness ==
    /\ ret.op = "create_noise_model"
    /\ ret.arg \in Registered
    /\ DictGet(backends, ret.arg).provider = "ibm"
    /\ ret.cal.fails = "properties"
    /\ ret.nm = NoiseModel

\* C3 (as stated): under every interleaving, a finished set_backend call with a
\* registered name returned the backend registered under its own name, and
\* once every call has finished the active backend is the one of the last
\* store.
C3_ConcurrentSelectLinearizable ==
    /\ \A t \in Threads :
          (calls[t].pc = "done" /\ calls[t].exc = "none")
             => calls[t].backend = DictGet(backends, calls[t].name)
    /\ ((\A t \in Threads : calls[t].pc \in {"idle", "done"}) /\ last_write # "")
          => active_backend = DictGet(backends, last_write)

\* C4: the active backend of a constructed registry is always one of the
\* registered backends, and it is the statevector simulator until the first
\* store of a set_backend call.
C4_ActiveIsRegistered ==
    phase = "ready" =>
       /\ \E n \in Registered : active_backend = DictGet(backends, n)
       /\ last_write = "" => /\ active_backend = AerSimulator("statevector")
                             /\ active_backend = DictGet(backends, StatevectorName)

\* C4 witness: after one thread's select failed and another's succeeded, the
\* active backend is a remote device.
C4_Witness ==
    /\ phase = "ready"
    /\ \E t \in Threads : calls[t].pc = "done" /\ calls[t].exc = "ValueError"
    /\ \E t \in Threads : calls[t].pc = "done" /\ calls[t].exc = "none"
    /\ active_backend.provider = "ibm"

\* C8: once the registry is constructed, no step of any registry method, of
\* a caller or of the shell (its handlers and its background tasks) changes
\* the mapping from names to backends or the order of its names.
C8_BackendsNeverChange ==
    [][phase = "ready" => backends' = backends]_vars

\* C8 witness: the shell has run an analysis to its end, which selected the
\* qasm simulator, and has reported on it.
C8_Witness ==
    /\ app
    /\ phase = "ready"
    /\ \E k \in 1..Len(tasks) : tasks[k].pc = "done"
    /\ ret.op = "set_backend" /\ ret.arg = QasmName
    /\ ui_out.kind = "ReportGenerator"

\* C8 second case, reached as well: a registry with remote devices after a
\* noise model was derived for one of them.
C8_WitnessRemote ==
    /\ ~app
    /\ Cardinality(Registered) = 4
    /\ ret.op = "create_noise_model" /\ ret.nm.kind = "device"

\* C11: the cache holds one model per name; a successful derivation makes its
\* model the cached one for its name, whatever was cached before, and leaves
\* the models of the other names alone; no other step changes the cache.
C11_LatestDerivationWins ==
    [][IF ret'.op = "create_noise_model" /\ ret'.exc = "none"
         THEN /\ DOMAIN noise_models' = DOMAIN noise_models \cup {ret'.arg}
              /\ noise_models'[ret'.arg] = ret'.nm
              /\ \A n \in DOMAIN noise_models \ {ret'.arg} :
                    noise_models'[n] = noise_models[n]
         ELSE noise_models' = noise_models]_vars

\* C11 witness: two names are cached, and the last derivation for a device
\* read its second calibration snapshot.
C11_Witness ==
    /\ ret.op = "create_noise_model" /\ ret.exc = "none"
    /\ ret.nm = DeviceNoiseModel(2)
    /\ Cardinality(DOMAIN noise_models) >= 2
    /\ noise_models[ret.arg] = ret.nm

\* C13 (as stated): each synthetic constructor raises exactly when the
\* probability is below 0 or above 1, and returns a noise model otherwise.
C13_ProbabilityRange ==
    ret.op \in {"sample_depolarizing", "sample_pauli"}
       => IF ret.p < 0 \/ ret.p > 100
            THEN ret.exc # "none" /\ ret.nm = NoNoiseModel
            ELSE ret.exc = "none" /\ ret.nm.kind \in {"depolarizing", "pauli"}

\* C20: every name with a cached model is registered; create_noise_model with
\* an unregistered name raises and adds nothing; get_noise_model changes
\* neither cache, registry nor active backend, and gives the empty model for a
\* name with nothing cached.
C20_CacheOnlyForRegistered ==
    [][/\ DOMAIN noise_models' \subseteq DOMAIN backends'.map
       /\ (ret'.op = "create_noise_model" /\ ret'.arg \notin Registered)
             => /\ ret'.exc = "ValueError"
                /\ noise_models' = noise_models
       /\ ret'.op = "get_noise_model"
             => /\ noise_models' = noise_models
                /\ backends' = backends
                /\ active_backend' = active_backend
                /\ ret'.arg \notin DOMAIN noise_models => ret'.nm = NoiseModel]_vars

\* C20 witness: get_noise_model for an unregistered name, with models cached
\* for other names.
C20_Witness ==
    /\ ret.op = "get_noise_model"
    /\ ret.arg \notin Registered
    /\ ret.nm = NoiseModel
    /\ noise_models # EmptyMap

\* The levels of a sequence of result records.
LevelsOf(rows) == [i \in 1..Len(rows) |-> rows[i].level]

StrictlyAscending(q) == \A i \in 1..(Len(q) - 1) : q[i] < q[i + 1]

AllEnded == \A k \in 1..Len(tasks) : tasks[k].pc \in {"done", "failed"}

\* What a complete analysis of the last accepted request returns.
RequestedResults ==
    analyze_transpile(DictGet(backends, request.backend), request.levels,
                      NoLevel).results

\* Every result sequence a complete analysis can return.
CompleteResults ==
    {analyze_transpile(DictGet(backends, n), MapInt(Split(t)), NoLevel).results :
        n \in Registered, t \in {x \in LevelTexts : ParsesAsInts(Split(x))}}

\* C14 (as stated): the results a task holds, the stored analysis data and the
\* rows displayed have one record per distinct requested level, in ascending
\* level order.
C14_OneRecordPerLevelAscending ==
    /\ \A k \in 1..Len(tasks) :
          tasks[k].pc \in {"store", "insert"}
             => LevelsOf(tasks[k].results) = Ascending(SeqRange(tasks[k].levels))
    /\ StrictlyAscending(LevelsOf(analysis_data.rows))
    /\ StrictlyAscending(LevelsOf(tree))

\* C15 (as stated): a Run Analysis request whose levels do not parse, are
\* empty or hold an unsupported level starts no background task, keeps the
\* active backend and keeps the displayed rows.
C15_InvalidRequestStartsNothing ==
    [][/\ Len(tasks') > Len(tasks)
          => LET lv == SeqRange(tasks'[Len(tasks')].levels)
             IN lv # {} /\ lv \subseteq SupportedLevels
       /\ ui_out'.kind = "showerror:Invalid input"
          => /\ tasks' = tasks
             /\ active_backend' = active_backend
             /\ tree' = tree]_vars

C17_CancelStopsFurtherLevels ==
    [][\A k \in 1..Len(tasks) :
          (tasks[k].cancel /\ tasks[k].pc = "analyze" /\ tasks'[k].pc = "store")
             => Len(tasks'[k].results) <= 1]_vars

\* C18 (as stated): once all background tasks have ended, and the most
\* recently requested analysis completed, the table holds exactly its rows, in
\* order, and the stored analysis data equals them.
C18_LastRequestWins ==
    (Len(tasks) >= 2 /\ AllEnded /\ tasks[Len(tasks)].pc = "done")
       => /\ tree = RequestedResults
          /\ analysis_data.rows = RequestedResults

\* C19 (as stated): whenever no background task is running, the table shows
\* exactly the stored analysis data, same records in the same order.
C19_TableAgreesWithData ==
    AllEnded => tree = analysis_data.rows

\* The models a finished derivation can give.
BuiltModels == {NoiseModel} \cup {DeviceNoiseModel(n) : n \in Snapshots}

\* C12: under every interleaving the cache holds only completely built
\* models; a lookup returns the empty model when nothing is cached for its name
\* and the cached, complete model otherwise; a thread in a derivation never
\* waits for another, and its store leaves exactly its own model under its
\* name and the models of the other names as they were.
C12_LookupsSeeBuiltModels ==
    [][/\ \A n \in DOMAIN noise_models' : noise_models'[n] \in BuiltModels
       /\ \A t \in Threads :
             /\ (calls[t].pc = "nm_get" /\ calls'[t].pc = "done")
                   => /\ calls'[t].nm \in BuiltModels
                      /\ calls'[t].nm = IF calls[t].name \in DOMAIN noise_models
                                          THEN noise_models[calls[t].name]
                                          ELSE NoiseModel
             /\ (calls[t].pc = "nm_store" /\ calls'[t].pc = "done")
                   => /\ DOMAIN noise_models'
                            = DOMAIN noise_models \cup {calls[t].name}
                      /\ noise_models'[calls[t].name] = calls[t].nm
                      /\ \A n \in DOMAIN noise_models \ {calls[t].name} :
                            noise_models'[n] = noise_models[n]
             /\ calls[t].pc = "nm_derive"
                   => \E cal \in AllCalibrations : ENABLED CreateNoiseModelDerive(t, cal)
             /\ calls[t].pc = "nm_store" => ENABLED CreateNoiseModelStore(t)]_vars

\* C12 witness: two derivations for the same device raced and gave different
\* models; both returned, and the cache holds the model of the first thread.
C12_Witness ==
    /\ \A t \in Threads :
          /\ calls[t].pc = "done" /\ calls[t].op = "create_noise_model"
          /\ calls[t].name = IBMName("lima")
          /\ calls[t].n = 1
    /\ calls["t1"].nm = DeviceNoiseModel(1)
    /\ calls["t2"].nm = DeviceNoiseModel(2)
    /\ noise_models[IBMName("lima")] = calls["t1"].nm

\* C12 witness: a lookup returned the empty default while a derivation for
\* the same name had its model built but not yet stored.
C12_WitnessLookupDuringDerivation ==
    /\ calls["t1"].pc = "nm_store" /\ calls["t1"].name = IBMName("lima")
    /\ calls["t1"].nm = DeviceNoiseModel(1)
    /\ calls["t2"].pc = "done" /\ calls["t2"].op = "get_noise_model"
    /\ calls["t2"].name = IBMName("lima")
    /\ calls["t2"].nm = NoiseModel
    /\ IBMName("lima") \notin DOMAIN noise_models

====
